---- MODULE Spec2Model ----
(***************************************************************************)
(* Streaming platform: playback authorisation, the view-session state     *)
(* machine and the encoder webhooks, over the three tables they share     *)
(* (streams, view_sessions, users).                                        *)
(*                                                                         *)
(* Every request handler works on in-memory model instances: a row is     *)
(* loaded, the instance is changed, and save() writes either the whole    *)
(* row or the listed update_fields.  The sequential specifications run    *)
(* each handler as one step; the concurrent ones split a handler at its   *)
(* database accesses, each request keeping its own instances.             *)
(***************************************************************************)
EXTENDS Integers, Sequences, FiniteSets, TLC

\* ---------------------------------------------------------------- bounds
NUsers == 2
NRequests == 2
MaxSessions == 2
MaxTime == 2
MaxStat == 1
MaxDelta == 3
MaxViewers == 14
TicksPerSecond == 2

\* ------------------------------------------------------------- constants
Null == -1

Users == 1..NUsers

OFFLINE == "OFFLINE"
ONLINE == "ONLINE"
STARTING == "STARTING"
ERROR == "ERROR"
Status == {OFFLINE, ONLINE, STARTING, ERROR}

SubscriptionTier == {"FREE", "BASIC", "PREMIUM", "ULTRA"}

\* quality labels a client may send: the playlist names, "auto", one unknown
QualityLabels == {"auto", "360p", "480p", "720p", "1080p", "4k"}

StatFields == {"buffer_count", "quality_switches", "data_consumed", "average_bitrate"}

\* request.data of a heartbeat: any subset of the four counters, each with a value
HeartbeatData == UNION {[F -> 1..MaxStat] : F \in SUBSET StatFields}

\* the heartbeats the sessions specification sends: nothing, the byte counter
\* alone, all four counters
HeartbeatInputs ==
    {data \in HeartbeatData : DOMAIN data \in {{}, {"data_consumed"}, StatFields}}

\* the columns of a session that ViewSessionSerializer leaves writable and the
\* life cycle owns
LifeCycleFields == {"ended_at", "watch_duration", "data_consumed"}

\* request.data of a PATCH: any of those columns, each with a value (a time
\* for ended_at)
PatchData ==
    UNION {[F -> 1..MaxStat] : F \in (SUBSET LifeCycleFields) \ {{}}}

\* the patches the session endpoint specification sends: ended_at alone, all three
PatchInputs ==
    {data \in PatchData : DOMAIN data \in {{"ended_at"}, LifeCycleFields}}

\* Stream.available_qualities as an operator sets it: two rungs, or all four
Ladders == {<<"360p", "480p">>, <<"360p", "480p", "720p", "1080p">>}

\* stream keys, one of them with a leading digit
StreamKeys == {"abc", "1abc"}

\* expires_in, in seconds: two short lifetimes and the hour the view asks for
Lifetimes == {1, 11, 3600}

\* settings.STREAMING_CONFIG['HLS_SECRET_KEY'] of two deployments
Secrets == {"k1", "k2"}

\* the quality the session specifications request: the client's default
SessionQualities == {"auto"}

Max(a, b) == IF a > b THEN a ELSE b

VARIABLES
    stream,      \* the streams row
    sessions,    \* the view_sessions table, indexed by primary key
    users,       \* the users table
    now,         \* timezone.now(), in ticks of 1/TicksPerSecond s
    response,    \* the last HTTP response sent, and what the handler found
    requests,    \* in-flight requests: position and in-memory instances
    hist         \* history: what was applied, for the claims

vars == <<stream, sessions, users, now, response, requests, hist>>

\* ------------------------------------------------------- users/models.py
\* the table with BASIC and PREMIUM sharing one row
max_quality_shifted(tier) ==
    CASE tier = "FREE" -> "360p"
      [] tier = "BASIC" -> "720p"
      [] tier = "PREMIUM" -> "720p"
      [] tier = "ULTRA" -> "1080p"
      [] OTHER -> "360p"

max_quality(tier) ==
    CASE tier = "FREE" -> "360p"
      [] tier = "BASIC" -> "480p"
      [] tier = "PREMIUM" -> "720p"
      [] tier = "ULTRA" -> "1080p"
      [] OTHER -> "360p"

quality_hierarchy == <<"360p", "480p", "720p", "1080p">>

\* list.index: the first position of x, 0 standing for ValueError
index(x) ==
    IF \E i \in 1..Len(quality_hierarchy) : quality_hierarchy[i] = x
    THEN CHOOSE i \in 1..Len(quality_hierarchy) :
            /\ quality_hierarchy[i] = x
            /\ \A j \in 1..(i - 1) : quality_hierarchy[j] # x
    ELSE 0

\* the comparison with < for <=
can_watch_quality_strict(tier, quality) ==
    LET max_idx == index(max_quality(tier))
        req_idx == index(quality)
    IN  IF req_idx = 0 THEN FALSE ELSE req_idx < max_idx

can_watch_quality(tier, quality) ==
    LET max_idx == index(max_quality(tier))
        req_idx == index(quality)
    IN  IF req_idx = 0 THEN FALSE ELSE req_idx <= max_idx

\* the gate of get_playback_url: "auto" never reaches can_watch_quality
quality_denied(tier, quality) ==
    quality # "auto" /\ ~can_watch_quality(tier, quality)

\* ----------------------------------------------------- streams/models.py
\* Model.save(update_fields=fields): only the listed columns are written
save_fields(row, inst, fields) ==
    [f \in DOMAIN row |-> IF f \in fields THEN inst[f] ELSE row[f]]

\* the count without its floor at zero
update_viewer_count_unclamped(self, delta) ==
    LET current == self.current_viewers + delta
        peak == IF current > self.peak_viewers THEN current ELSE self.peak_viewers
    IN  [self EXCEPT !.current_viewers = current, !.peak_viewers = peak]

\* Stream.update_viewer_count on the instance self, before its save
update_viewer_count(self, delta) ==
    LET current == Max(0, self.current_viewers + delta)
        peak == IF current > self.peak_viewers THEN current ELSE self.peak_viewers
    IN  [self EXCEPT !.current_viewers = current, !.peak_viewers = peak]

\* the save that leaves the peak out
ViewerFields_count_only == {"current_viewers"}

\* the save without update_fields: every column of the row
ViewerFields_whole_row ==
    {"status", "available_qualities", "current_viewers", "total_views",
     "peak_viewers", "started_at", "ended_at"}

ViewerFields == {"current_viewers", "peak_viewers"}
UsageFields == {"total_watch_time", "monthly_data_used"}

\* int((ended_at - started_at).total_seconds())
watch_seconds(started, ended) == (ended - started) \div TicksPerSecond

\* ViewSession.save(): last_heartbeat is auto_now
save_session(self, t) == [self EXCEPT !.last_heartbeat = t]

\* end_session, lines 158-161: the instance as it is saved
ended_session(self, t) ==
    save_session([self EXCEPT !.ended_at = t,
                              !.watch_duration = watch_seconds(self.started_at, t)], t)

\* end_session, lines 167-168: the user instance before its save
charged_user(user, session) ==
    [user EXCEPT !.total_watch_time = @ + session.watch_duration,
                 !.monthly_data_used = @ + session.data_consumed]

\* ViewSession.objects.create in get_playback_url
new_session(u, quality, t) ==
    [user |-> u, quality |-> quality, started_at |-> t, last_heartbeat |-> t,
     ended_at |-> Null, watch_duration |-> 0, data_consumed |-> 0,
     buffer_count |-> 0, quality_switches |-> 0, average_bitrate |-> 0]

\* heartbeat, lines 192-202: the instance before its save
heartbeat_instance(self, data, t) ==
    [f \in DOMAIN self |->
        IF f = "last_heartbeat" THEN t
        ELSE IF f \in DOMAIN data THEN data[f]
        ELSE self[f]]

\* the queryset without its filter on the owner
visible_to_all(u, sid) == sid \in 1..Len(sessions)

\* ViewSessionViewSet.get_queryset + get_object: the keys the user may see
visible(u, sid) ==
    /\ sid \in 1..Len(sessions)
    /\ (users[u].is_staff \/ sessions[sid].user = u)

\* an integer inside an f-string: its decimal digits
Digit == <<"0", "1", "2", "3", "4", "5", "6", "7", "8", "9">>

RECURSIVE str(_)
str(n) == IF n < 10 THEN Digit[n + 1] ELSE str(n \div 10) \o Digit[(n % 10) + 1]

\* generate_signed_url, line 76: int(timezone.now().timestamp() + expires_in)
signed_expires(t, expires_in) ==
    (t + expires_in * TicksPerSecond) \div TicksPerSecond

\* generate_signed_url, lines 79-82
hls_path(stream_key, quality) ==
    IF quality = "auto" THEN stream_key \o "/master.m3u8"
    ELSE stream_key \o "/" \o quality \o "/playlist.m3u8"

\* generate_signed_url, line 88: the string that is digested
signed_message(expires, path, secret) == str(expires) \o path \o secret

\* Stream.generate_signed_url: what the URL is made of
generate_signed_url(stream_key, quality, expires_in, t, secret) ==
    LET expires == signed_expires(t, expires_in)
        path == hls_path(stream_key, quality)
    IN  [stream_key |-> stream_key, quality |-> quality, expires_in |-> expires_in,
         expires |-> expires, path |-> path, secret |-> secret,
         message |-> signed_message(expires, path, secret)]

\* ------------------------------------------------------------ responses
NoResponse ==
    [op |-> "none", user |-> 0, quality |-> "", sid |-> 0, code |-> 0,
     allowed |-> FALSE, repeated |-> FALSE, found |-> 0, max_quality |-> "",
     watch_duration |-> Null, data_consumed |-> Null, signed |-> <<>>]

Reply(op, sid, code) == [NoResponse EXCEPT !.op = op, !.sid = sid, !.code = code]

\* ---------------------------------------------------------------- state
Requests == 1..NRequests

\* a request slot: where the handler is and the instances it holds
NoRequest ==
    [pc |-> "idle", op |-> "none", user |-> 0, sid |-> 0, quality |-> "",
     code |-> 0, repeated |-> FALSE, found |-> 0, data |-> <<>>, stream |-> <<>>,
     session |-> <<>>, owner |-> <<>>, todo |-> <<>>]

\* a streams row as the field defaults create it
DefaultStream ==
    [status |-> OFFLINE, available_qualities |-> <<>>, current_viewers |-> 0,
     total_views |-> 0, peak_viewers |-> 0, started_at |-> Null, ended_at |-> Null]

\* users as registration leaves them, on any tier, staff or not
InitUsers ==
    users \in [Users -> [subscription_tier : SubscriptionTier, is_staff : BOOLEAN,
                         monthly_data_used : {0}, total_watch_time : {0}]]

InitEmpty ==
    /\ sessions = <<>>
    /\ now = 0
    /\ requests = [r \in Requests |-> NoRequest]
    /\ hist = [max_viewers |-> 0, decrements |-> <<>>, charges |-> <<>>]

\* a provisioned stream that is not live, no session yet
Init ==
    /\ stream \in {[DefaultStream EXCEPT !.status = st] : st \in Status \ {ONLINE}}
    /\ response = NoResponse
    /\ InitUsers
    /\ InitEmpty

\* history kept beside every write of the viewer counters
Seen(h, row) == [h EXCEPT !.max_viewers = Max(@, row.current_viewers)]

\* history opened beside every insert into view_sessions
NewSession(h) ==
    [h EXCEPT !.decrements = Append(@, 0), !.charges = Append(@, 0)]

Tick ==
    /\ now < MaxTime
    /\ now' = now + 1
    /\ UNCHANGED <<stream, sessions, users, response, requests, hist>>

Store == [stream |-> stream, sessions |-> sessions, users |-> users, hist |-> hist]

\* end_session without its test of ended_at
end_session_unguarded(S, sid, t) ==
    LET self == S.sessions[sid]
        ended == ended_session(self, t)
        viewers == update_viewer_count(S.stream, -1)
        owner == S.users[self.user]
    IN  [stream |-> save_fields(S.stream, viewers, ViewerFields),
         sessions |-> [S.sessions EXCEPT ![sid] = ended],
         users |-> [S.users EXCEPT ![self.user] =
                       save_fields(owner, charged_user(owner, ended), UsageFields)],
         hist |-> [Seen(S.hist, viewers) EXCEPT !.decrements[sid] = @ + 1,
                                                !.charges[sid] = @ + 1]]

\* ViewSession.end_session with nothing else running: the session row, then the
\* stream loaded through self.stream, then the user loaded through self.user
end_session(S, sid, t) ==
    LET self == S.sessions[sid]
        ended == ended_session(self, t)
        viewers == update_viewer_count(S.stream, -1)
        owner == S.users[self.user]
    IN  IF self.ended_at # Null THEN S
        ELSE [stream |-> save_fields(S.stream, viewers, ViewerFields),
              sessions |-> [S.sessions EXCEPT ![sid] = ended],
              users |-> [S.users EXCEPT ![self.user] =
                            save_fields(owner, charged_user(owner, ended), UsageFields)],
              hist |-> [Seen(S.hist, viewers) EXCEPT !.decrements[sid] = @ + 1,
                                                     !.charges[sid] = @ + 1]]

\* the loop leaving after its first session
end_sessions_first(S, sids, t) ==
    IF sids = <<>> THEN S ELSE end_session(S, Head(sids), t)

\* stream_stop's loop over the sessions the filter returned, in key order
RECURSIVE end_sessions(_, _, _)
end_sessions(S, sids, t) ==
    IF sids = <<>> THEN S
    ELSE end_sessions(end_session(S, Head(sids), t), Tail(sids), t)

\* ViewSession.objects.filter(stream=stream, ended_at__isnull=True)
RECURSIVE active_from(_, _)
active_from(rows, sid) ==
    IF sid > Len(rows) THEN <<>>
    ELSE IF rows[sid].ended_at = Null THEN <<sid>> \o active_from(rows, sid + 1)
    ELSE active_from(rows, sid + 1)

active_sessions(rows) == active_from(rows, 1)

\* the test against OFFLINE alone
stream_offline_only(self) == self.status = OFFLINE

\* get_playback_url, line 104
stream_offline(self) == self.status # ONLINE

\* the start that does not date the broadcast
started_stream_undated(self, t) ==
    [self EXCEPT !.status = ONLINE, !.current_viewers = 0]

\* stream_start, lines 234-236: the instance before its save
started_stream(self, t) ==
    [self EXCEPT !.status = ONLINE, !.started_at = t, !.current_viewers = 0]

\* the stop that acts on a live stream only
stopped_stream_if_live(self, t) ==
    IF self.status # ONLINE THEN self
    ELSE [self EXCEPT !.status = OFFLINE, !.ended_at = t, !.current_viewers = 0]

\* stream_stop, lines 256-258: the instance before its save
stopped_stream(self, t) ==
    [self EXCEPT !.status = OFFLINE, !.ended_at = t, !.current_viewers = 0]

Commit(S) ==
    /\ stream' = S.stream
    /\ sessions' = S.sessions
    /\ users' = S.users
    /\ hist' = S.hist

\* ------------------------------------------- handlers, one request at a time
GetPlaybackUrl(u, quality) ==
    LET self == stream
        sid == Len(sessions) + 1
        counted == update_viewer_count(self, 1)
    IN  /\ IF stream_offline(self)
           THEN /\ response' = Reply("play", 0, 400)
                /\ UNCHANGED <<stream, sessions, users, hist>>
           ELSE IF quality_denied(users[u].subscription_tier, quality)
           THEN /\ response' = [Reply("play", 0, 403) EXCEPT
                                  !.quality = quality,
                                  !.max_quality = max_quality(users[u].subscription_tier)]
                /\ UNCHANGED <<stream, sessions, users, hist>>
           ELSE /\ Len(sessions) < MaxSessions
                /\ sessions' = Append(sessions, new_session(u, quality, now))
                /\ stream' = save_fields(stream, counted, ViewerFields)
                /\ hist' = NewSession(Seen(hist, counted))
                /\ response' = [Reply("play", sid, 200) EXCEPT !.quality = quality]
                /\ UNCHANGED users
        /\ UNCHANGED <<now, requests>>

Heartbeat(u, sid, data) ==
    /\ IF ~visible(u, sid)
       THEN /\ response' = Reply("heartbeat", sid, 404)
            /\ UNCHANGED sessions
       ELSE /\ sessions' = [sessions EXCEPT ![sid] =
                    save_session(heartbeat_instance(sessions[sid], data, now), now)]
            /\ response' = Reply("heartbeat", sid, 200)
    /\ UNCHANGED <<stream, users, now, requests, hist>>

End(u, sid) ==
    /\ IF ~visible(u, sid)
       THEN /\ response' = Reply("end", sid, 404)
            /\ UNCHANGED <<stream, sessions, users, hist>>
       ELSE LET S == end_session(Store, sid, now)
            IN  /\ Commit(S)
                /\ response' = [Reply("end", sid, 200) EXCEPT
                        !.repeated = (sessions[sid].ended_at # Null),
                        !.watch_duration = S.sessions[sid].watch_duration,
                        !.data_consumed = S.sessions[sid].data_consumed]
    /\ UNCHANGED <<now, requests>>

StreamStart ==
    LET self == started_stream(stream, now)
    IN  /\ stream' = self
        /\ hist' = Seen(hist, self)
        /\ response' = Reply("stream_start", 0, 200)
        /\ UNCHANGED <<sessions, users, now, requests>>

StreamStop ==
    LET self == stopped_stream(stream, now)
        S == [Store EXCEPT !.stream = self, !.hist = Seen(hist, self)]
    IN  /\ Commit(end_sessions(S, active_sessions(sessions), now))
        /\ response' = [Reply("stream_stop", 0, 200) EXCEPT
                !.repeated = (stream.status = OFFLINE),
                !.found = Len(active_sessions(sessions))]
        /\ UNCHANGED <<now, requests>>

\* PATCH /sessions/{pk}/, which ModelViewSet provides: the serializer's
\* writable fields are set on the instance and the instance is saved whole
PartialUpdate(u, sid, data) ==
    /\ IF ~visible(u, sid)
       THEN /\ response' = Reply("partial_update", sid, 404)
            /\ UNCHANGED sessions
       ELSE /\ sessions' = [sessions EXCEPT ![sid] =
                    save_session([f \in DOMAIN @ |->
                        IF f \in DOMAIN data THEN data[f] ELSE @[f]], now)]
            /\ response' = Reply("partial_update", sid, 200)
    /\ UNCHANGED <<stream, users, now, requests, hist>>

\* POST /sessions/, which ModelViewSet provides: user and stream are not among
\* the serializer's fields, the insert violates NOT NULL and nothing is stored
Create(u) ==
    /\ response' = [Reply("create", 0, 500) EXCEPT !.user = u]
    /\ UNCHANGED <<stream, sessions, users, now, requests, hist>>

\* Stream.generate_signed_url called on its own
GenerateSignedUrl(stream_key, quality, expires_in, secret) ==
    /\ response' = [Reply("sign", 0, 0) EXCEPT
            !.signed = generate_signed_url(stream_key, quality, expires_in, now, secret)]
    /\ UNCHANGED <<stream, sessions, users, now, requests, hist>>

\* Stream.update_viewer_count called on its own, the row loaded and saved
UpdateViewerCount(delta) ==
    LET self == update_viewer_count(stream, delta)
    IN  /\ stream.current_viewers + delta <= MaxViewers
        /\ stream' = save_fields(stream, self, ViewerFields)
        /\ hist' = Seen(hist, self)
        /\ response' = Reply("update_viewer_count", 0, 0)
        /\ UNCHANGED <<sessions, users, now, requests>>

\* User.can_watch_quality and User.max_quality called on their own
CanWatchQuality(u, quality) ==
    LET tier == users[u].subscription_tier
    IN  /\ response' = [Reply("can_watch_quality", 0, 0) EXCEPT
                            !.user = u, !.quality = quality,
                            !.allowed = can_watch_quality(tier, quality),
                            !.max_quality = max_quality(tier)]
        /\ UNCHANGED <<stream, sessions, users, now, requests, hist>>

\* ------------------------------------- handlers, split at database accesses
\* A request r holds its own instances; every step below is one query or one
\* save, together with the Python that runs before the next one.

Finish(r, code) ==
    [requests EXCEPT ![r] = [NoRequest EXCEPT !.pc = "done", !.op = requests[r].op,
                                              !.user = requests[r].user,
                                              !.quality = requests[r].quality,
                                              !.sid = requests[r].sid,
                                              !.code = code]]

\* get_playback_url, lines 100-128: the stream is loaded and the request checked
PlayLoad(r, u, quality) ==
    LET self == stream
        req == [NoRequest EXCEPT !.op = "play", !.user = u, !.quality = quality]
    IN  /\ requests[r].pc = "idle"
        /\ Len(sessions) + Cardinality({q \in Requests : requests[q].pc = "play_create"})
              < MaxSessions
        /\ IF stream_offline(self)
           THEN /\ response' = Reply("play", 0, 400)
                /\ requests' = [requests EXCEPT ![r] = [req EXCEPT !.pc = "done", !.code = 400]]
           ELSE IF quality_denied(users[u].subscription_tier, quality)
           THEN /\ response' = [Reply("play", 0, 403) EXCEPT
                                  !.quality = quality,
                                  !.max_quality = max_quality(users[u].subscription_tier)]
                /\ requests' = [requests EXCEPT ![r] = [req EXCEPT !.pc = "done", !.code = 403]]
           ELSE /\ requests' = [requests EXCEPT ![r] =
                                  [req EXCEPT !.pc = "play_create", !.stream = self]]
                /\ UNCHANGED response
        /\ UNCHANGED <<stream, sessions, users, now, hist>>

\* get_playback_url, lines 131-140: the session row is inserted
PlayCreate(r) ==
    LET req == requests[r]
    IN  /\ req.pc = "play_create"
        /\ sessions' = Append(sessions, new_session(req.user, req.quality, now))
        /\ hist' = NewSession(hist)
        /\ requests' = [requests EXCEPT ![r].pc = "play_count",
                                        ![r].sid = Len(sessions) + 1]
        /\ UNCHANGED <<stream, users, now, response>>

\* get_playback_url, lines 143-151: update_viewer_count(1) on the instance
\* loaded at line 100, and the response
PlayCount(r) ==
    LET req == requests[r]
        counted == update_viewer_count(req.stream, 1)
    IN  /\ req.pc = "play_count"
        /\ stream' = save_fields(stream, counted, ViewerFields)
        /\ hist' = Seen(hist, counted)
        /\ response' = [Reply("play", req.sid, 200) EXCEPT !.quality = req.quality]
        /\ requests' = Finish(r, 200)
        /\ UNCHANGED <<sessions, users, now>>

\* heartbeat, line 189: get_object
HeartbeatLoad(r, u, sid, data) ==
    LET req == [NoRequest EXCEPT !.op = "heartbeat", !.user = u, !.sid = sid]
    IN  /\ requests[r].pc = "idle"
        /\ IF ~visible(u, sid)
           THEN /\ response' = Reply("heartbeat", sid, 404)
                /\ requests' = [requests EXCEPT ![r] = [req EXCEPT !.pc = "done", !.code = 404]]
           ELSE /\ requests' = [requests EXCEPT ![r] =
                        [req EXCEPT !.pc = "heartbeat_save", !.data = data,
                                    !.session = sessions[sid]]]
                /\ UNCHANGED response
        /\ UNCHANGED <<stream, sessions, users, now, hist>>

\* heartbeat, lines 192-206: the instance is changed and saved whole
HeartbeatSave(r) ==
    LET req == requests[r]
    IN  /\ req.pc = "heartbeat_save"
        /\ sessions' = [sessions EXCEPT ![req.sid] =
                save_session(heartbeat_instance(req.session, req.data, now), now)]
        /\ response' = Reply("heartbeat", req.sid, 200)
        /\ requests' = Finish(r, 200)
        /\ UNCHANGED <<stream, users, now, hist>>

\* end, line 211: get_object
EndLoad(r, u, sid) ==
    LET req == [NoRequest EXCEPT !.op = "end", !.user = u, !.sid = sid]
    IN  /\ requests[r].pc = "idle"
        /\ IF ~visible(u, sid)
           THEN /\ response' = Reply("end", sid, 404)
                /\ requests' = [requests EXCEPT ![r] = [req EXCEPT !.pc = "done", !.code = 404]]
           ELSE /\ requests' = [requests EXCEPT ![r] =
                        [req EXCEPT !.pc = "end_save", !.session = sessions[sid]]]
                /\ UNCHANGED response
        /\ UNCHANGED <<stream, sessions, users, now, hist>>

\* what follows end_session: end's response (lines 214-218), or the next
\* session of stream_stop's loop and its response (lines 266-269)
Returned(r, req) ==
    IF req.op = "end"
    THEN /\ response' = [Reply("end", req.sid, 200) EXCEPT
                !.repeated = (req.pc = "end_save"),
                !.watch_duration = req.session.watch_duration,
                !.data_consumed = req.session.data_consumed]
         /\ requests' = Finish(r, 200)
    ELSE IF req.todo = <<>>
    THEN /\ response' = [Reply("stream_stop", 0, 200) EXCEPT
                !.repeated = req.repeated, !.found = req.found]
         /\ requests' = Finish(r, 200)
    ELSE /\ requests' = [requests EXCEPT ![r] =
                [req EXCEPT !.pc = "end_save", !.sid = Head(req.todo).sid,
                            !.session = Head(req.todo).row, !.todo = Tail(req.todo)]]
         /\ UNCHANGED response

\* end_session, lines 157-161: the test of the instance's ended_at and its save
EndSave(r) ==
    LET req == requests[r]
        self == req.session
        ended == ended_session(self, now)
    IN  /\ req.pc = "end_save"
        /\ IF self.ended_at # Null
           THEN /\ Returned(r, req)
                /\ UNCHANGED sessions
           ELSE /\ sessions' = [sessions EXCEPT ![req.sid] = ended]
                /\ requests' = [requests EXCEPT ![r].pc = "end_stream_load",
                                                ![r].session = ended]
                /\ UNCHANGED response
        /\ UNCHANGED <<stream, users, now, hist>>

\* end_session, line 164: self.stream is fetched
EndStreamLoad(r) ==
    /\ requests[r].pc = "end_stream_load"
    /\ requests' = [requests EXCEPT ![r].pc = "end_stream_save", ![r].stream = stream]
    /\ UNCHANGED <<stream, sessions, users, now, response, hist>>

\* end_session, line 164: update_viewer_count(-1) on the fetched instance
EndStreamSave(r) ==
    LET req == requests[r]
        counted == update_viewer_count(req.stream, -1)
    IN  /\ req.pc = "end_stream_save"
        /\ stream' = save_fields(stream, counted, ViewerFields)
        /\ hist' = [Seen(hist, counted) EXCEPT !.decrements[req.sid] = @ + 1]
        /\ requests' = [requests EXCEPT ![r].pc = "end_user_load", ![r].stream = <<>>]
        /\ UNCHANGED <<sessions, users, now, response>>

\* end_session, line 167: self.user is fetched
EndUserLoad(r) ==
    LET req == requests[r]
    IN  /\ req.pc = "end_user_load"
        /\ requests' = [requests EXCEPT ![r].pc = "end_user_save",
                                        ![r].owner = users[req.session.user]]
        /\ UNCHANGED <<stream, sessions, users, now, response, hist>>

\* end_session, lines 167-169: the totals are raised on the instance and saved
EndUserSave(r) ==
    LET req == requests[r]
        uid == req.session.user
    IN  /\ req.pc = "end_user_save"
        /\ users' = [users EXCEPT ![uid] =
                save_fields(@, charged_user(req.owner, req.session), UsageFields)]
        /\ hist' = [hist EXCEPT !.charges[req.sid] = @ + 1]
        /\ Returned(r, [req EXCEPT !.owner = <<>>])
        /\ UNCHANGED <<stream, sessions, now>>

\* end_session raises after its first save (the database refuses the stream's
\* or the user's query): nothing is rolled back, the exception handler answers
\* 500, and a stop webhook leaves its loop
Fail(r) ==
    /\ requests[r].pc \in {"end_stream_load", "end_stream_save",
                           "end_user_load", "end_user_save"}
    /\ response' = Reply(requests[r].op, requests[r].sid, 500)
    /\ requests' = Finish(r, 500)
    /\ UNCHANGED <<stream, sessions, users, now, hist>>

\* stream_start, line 233: the stream is fetched by its key
StartLoad(r) ==
    /\ requests[r].pc = "idle"
    /\ requests' = [requests EXCEPT ![r] =
            [NoRequest EXCEPT !.pc = "start_save", !.op = "stream_start", !.stream = stream]]
    /\ UNCHANGED <<stream, sessions, users, now, response, hist>>

\* stream_start, lines 234-242: the instance is saved whole
StartSave(r) ==
    LET self == started_stream(requests[r].stream, now)
    IN  /\ requests[r].pc = "start_save"
        /\ stream' = self
        /\ hist' = Seen(hist, self)
        /\ response' = Reply("stream_start", 0, 200)
        /\ requests' = Finish(r, 200)
        /\ UNCHANGED <<sessions, users, now>>

\* stream_stop, line 255: the stream is fetched by its key
StopLoad(r) ==
    /\ requests[r].pc = "idle"
    /\ requests' = [requests EXCEPT ![r] =
            [NoRequest EXCEPT !.pc = "stop_save", !.op = "stream_stop", !.stream = stream,
                              !.repeated = (stream.status = OFFLINE)]]
    /\ UNCHANGED <<stream, sessions, users, now, response, hist>>

\* stream_stop, lines 256-259: the instance is saved whole
StopSave(r) ==
    LET self == stopped_stream(requests[r].stream, now)
    IN  /\ requests[r].pc = "stop_save"
        /\ stream' = self
        /\ hist' = Seen(hist, self)
        /\ requests' = [requests EXCEPT ![r].pc = "stop_query", ![r].stream = <<>>]
        /\ UNCHANGED <<sessions, users, now, response>>

\* the instances the filter returns when the loop starts
RECURSIVE fetched(_, _)
fetched(rows, sids) ==
    IF sids = <<>> THEN <<>>
    ELSE <<[sid |-> Head(sids), row |-> rows[Head(sids)]]>> \o fetched(rows, Tail(sids))

\* stream_stop, lines 262-266: the active sessions are queried
StopQuery(r) ==
    LET req == requests[r]
    IN  /\ req.pc = "stop_query"
        /\ Returned(r, [req EXCEPT !.todo = fetched(sessions, active_sessions(sessions)),
                                   !.found = Len(active_sessions(sessions))])
        /\ UNCHANGED <<stream, sessions, users, now, hist>>

\* ------------------------------------------------------- specifications
\* one viewer on BASIC and one staff member on PREMIUM
Roster ==
    \A u \in Users :
        /\ users[u].is_staff = (u = NUsers)
        /\ users[u].subscription_tier = (IF u = NUsers THEN "PREMIUM" ELSE "BASIC")

\* the access policy alone, on every tier
NextQuality ==
    \E u \in Users, quality \in QualityLabels : CanWatchQuality(u, quality)

SpecQuality == Init /\ [][NextQuality]_vars

\* the viewer counters alone
InitViewerCount == Init /\ Roster /\ stream.status = OFFLINE

NextViewerCount ==
    \E delta \in (0 - MaxDelta)..MaxDelta : UpdateViewerCount(delta)

SpecViewerCount == InitViewerCount /\ [][NextViewerCount]_vars

\* playback requests against the encoder's webhooks, within one tick of the
\* clock; the first user is on any tier, the others on BASIC
InitPlayback ==
    /\ Init
    /\ \A u \in Users : ~users[u].is_staff
    /\ \A u \in Users \ {1} : users[u].subscription_tier = "BASIC"

NextPlayback ==
    \/ \E u \in Users, quality \in QualityLabels : GetPlaybackUrl(u, quality)
    \/ StreamStart
    \/ StreamStop

SpecPlayback == InitPlayback /\ [][NextPlayback]_vars

\* the stream as stream_start at time 0 leaves it
InitSessions ==
    /\ stream = started_stream(DefaultStream, 0)
    /\ response = Reply("stream_start", 0, 200)
    /\ InitUsers
    /\ Roster
    /\ InitEmpty

\* the session life cycle, one request at a time, until the encoder stops
NextSessions ==
    \/ Tick
    \/ \E u \in Users, quality \in SessionQualities : GetPlaybackUrl(u, quality)
    \/ \E u \in Users, sid \in 1..MaxSessions, data \in HeartbeatInputs : Heartbeat(u, sid, data)
    \/ \E u \in Users, sid \in 1..MaxSessions : End(u, sid)
    \/ StreamStop

SpecSessions == InitSessions /\ [][NextSessions]_vars

\* the encoder's webhooks around the session life cycle, one request at a
\* time, from a stream that is not live
InitWebhooks == Init /\ Roster

NextWebhooks ==
    \/ Tick
    \/ \E u \in Users, quality \in SessionQualities : GetPlaybackUrl(u, quality)
    \/ \E u \in Users, sid \in 1..MaxSessions : End(u, sid)
    \/ StreamStart
    \/ StreamStop

SpecWebhooks == InitWebhooks /\ [][NextWebhooks]_vars

\* everything the session endpoint routes, one request at a time
NextSessionApi ==
    \/ Tick
    \/ \E u \in Users, quality \in SessionQualities : GetPlaybackUrl(u, quality)
    \/ \E u \in Users, sid \in 1..MaxSessions : End(u, sid)
    \/ \E u \in Users, sid \in 1..MaxSessions, data \in PatchInputs :
          PartialUpdate(u, sid, data)
    \/ \E u \in Users : Create(u)

SpecSessionApi == InitSessions /\ [][NextSessionApi]_vars

\* playback requests for every label on a live stream with any of the ladders,
\* the first user on any tier
InitLadder ==
    /\ stream \in {[started_stream(DefaultStream, 0) EXCEPT !.available_qualities = l] :
                      l \in Ladders}
    /\ response = Reply("stream_start", 0, 200)
    /\ InitUsers
    /\ \A u \in Users : ~users[u].is_staff
    /\ \A u \in Users \ {1} : users[u].subscription_tier = "BASIC"
    /\ InitEmpty

NextLadder ==
    \E u \in Users, quality \in QualityLabels : GetPlaybackUrl(u, quality)

SpecLadder == InitLadder /\ [][NextLadder]_vars

\* URLs signed one after the other as the clock advances
NextSign ==
    \/ Tick
    \/ \E stream_key \in StreamKeys, quality \in QualityLabels,
          expires_in \in Lifetimes, secret \in Secrets :
          GenerateSignedUrl(stream_key, quality, expires_in, secret)

SpecSign == InitSessions /\ [][NextSign]_vars

\* the requests of the concurrent specifications start once the set-up is over
NoneStarted == \A r \in Requests : requests[r].pc = "idle"
Quiescent == \A r \in Requests : requests[r].pc \in {"idle", "done"}

\* playback requests for the live stream, their queries interleaved
NextStartRace ==
    \/ Tick
    \/ \E r \in Requests, u \in Users, quality \in SessionQualities : PlayLoad(r, u, quality)
    \/ \E r \in Requests : PlayCreate(r)
    \/ \E r \in Requests : PlayCount(r)

SpecStartRace == InitSessions /\ [][NextStartRace]_vars

\* sessions are started one request at a time; then heartbeats, ends and the
\* stop webhook run with their queries interleaved
NextEndRace ==
    \/ Tick
    \/ \E u \in Users, quality \in SessionQualities :
          NoneStarted /\ GetPlaybackUrl(u, quality)
    \/ \E r \in Requests, u \in Users, sid \in 1..MaxSessions, data \in HeartbeatInputs :
          HeartbeatLoad(r, u, sid, data)
    \/ \E r \in Requests : HeartbeatSave(r)
    \/ \E r \in Requests, u \in Users, sid \in 1..MaxSessions : EndLoad(r, u, sid)
    \/ \E r \in Requests : EndSave(r)
    \/ \E r \in Requests : EndStreamLoad(r)
    \/ \E r \in Requests : EndStreamSave(r)
    \/ \E r \in Requests : EndUserLoad(r)
    \/ \E r \in Requests : EndUserSave(r)
    \/ \E r \in Requests : StopLoad(r)
    \/ \E r \in Requests : StopSave(r)
    \/ \E r \in Requests : StopQuery(r)

SpecEndRace == InitSessions /\ [][NextEndRace]_vars

\* end requests, one at a time, any of which may fail after its first save
NextEndFailure ==
    \/ Tick
    \/ \E u \in Users, quality \in SessionQualities :
          NoneStarted /\ GetPlaybackUrl(u, quality)
    \/ \E r \in Requests, u \in Users, sid \in 1..MaxSessions :
          Quiescent /\ EndLoad(r, u, sid)
    \/ \E r \in Requests : EndSave(r)
    \/ \E r \in Requests : EndStreamLoad(r)
    \/ \E r \in Requests : EndStreamSave(r)
    \/ \E r \in Requests : EndUserLoad(r)
    \/ \E r \in Requests : EndUserSave(r)
    \/ \E r \in Requests : Fail(r)

SpecEndFailure == InitSessions /\ [][NextEndFailure]_vars

\* playback requests, ends and both webhooks on one stream: first one request
\* at a time, then with their queries interleaved
NextStreamRace ==
    \/ \E u \in Users, quality \in SessionQualities :
          NoneStarted /\ GetPlaybackUrl(u, quality)
    \/ \E u \in Users, sid \in 1..MaxSessions : NoneStarted /\ End(u, sid)
    \/ NoneStarted /\ StreamStart
    \/ NoneStarted /\ StreamStop
    \/ \E r \in Requests, u \in Users, quality \in SessionQualities : PlayLoad(r, u, quality)
    \/ \E r \in Requests : PlayCreate(r)
    \/ \E r \in Requests : PlayCount(r)
    \/ \E r \in Requests, u \in Users, sid \in 1..MaxSessions : EndLoad(r, u, sid)
    \/ \E r \in Requests : EndSave(r)
    \/ \E r \in Requests : EndStreamLoad(r)
    \/ \E r \in Requests : EndStreamSave(r)
    \/ \E r \in Requests : EndUserLoad(r)
    \/ \E r \in Requests : EndUserSave(r)
    \/ \E r \in Requests : StartLoad(r)
    \/ \E r \in Requests : StartSave(r)
    \/ \E r \in Requests : StopLoad(r)
    \/ \E r \in Requests : StopSave(r)
    \/ \E r \in Requests : StopQuery(r)

SpecStreamRace == InitWebhooks /\ [][NextStreamRace]_vars

\* the stream race with heartbeats in it
NextLifecycleRace ==
    \/ NextStreamRace
    \/ \E r \in Requests, u \in Users, sid \in 1..MaxSessions :
          HeartbeatLoad(r, u, sid, <<>>)
    \/ \E r \in Requests : HeartbeatSave(r)

SpecLifecycleRace == InitWebhooks /\ [][NextLifecycleRace]_vars

\* ----------------------------------------------------------------- claims
\* The access policy as the specification words it, for comparison
ClaimedRank(quality) ==
    CASE quality = "360p" -> 1
      [] quality = "480p" -> 2
      [] quality = "720p" -> 3
      [] quality = "1080p" -> 4
      [] OTHER -> 0

ClaimedMax(tier) ==
    CASE tier = "FREE" -> "360p"
      [] tier = "BASIC" -> "480p"
      [] tier = "PREMIUM" -> "720p"
      [] tier = "ULTRA" -> "1080p"

ClaimedPermits(tier, quality) ==
    /\ ClaimedRank(quality) > 0
    /\ ClaimedRank(quality) <= ClaimedRank(ClaimedMax(tier))

TierOf(u) == users[u].subscription_tier

\* C1: after every update_viewer_count call of a sequence on one stream,
\* current_viewers is >= 0 and peak_viewers is the largest value
\* current_viewers has taken so far.
C1_ViewerCount ==
    /\ stream.current_viewers >= 0
    /\ stream.peak_viewers = hist.max_viewers

\* a count that fell back to zero below an earlier peak
C1_Witness ==
    /\ response.op = "update_viewer_count"
    /\ stream.current_viewers = 0
    /\ stream.peak_viewers = MaxViewers

\* C2: when NRequests playback requests for the live stream have all completed,
\* whatever the order of their queries, each was answered 200 and the stored
\* current_viewers is NRequests, peak_viewers at least NRequests.
C2_ConcurrentStarts ==
    (\A r \in Requests :
        /\ requests[r].pc = "done"
        /\ requests[r].op = "play"
        /\ (requests[r].quality = "auto"
              \/ ClaimedPermits(TierOf(requests[r].user), requests[r].quality)))
    => /\ \A r \in Requests : requests[r].code = 200
       /\ stream.current_viewers = NRequests
       /\ stream.peak_viewers >= NRequests

\* C3: a second end of a session, one request after the other, answers with the
\* watch_duration and data_consumed of the first and changes no row; the
\* viewer count is lowered once and the usage totals raised once per session.
C3_EndIdempotent ==
    [][\A u \in Users, sid \in 1..MaxSessions :
        (response'.op = "end" /\ response'.sid = sid /\ visible(u, sid) /\ End(u, sid)) =>
            /\ hist'.decrements[sid] = 1
            /\ hist'.charges[sid] = 1
            /\ sessions[sid].ended_at # Null =>
                  /\ UNCHANGED <<stream, sessions, users>>
                  /\ response'.watch_duration = sessions[sid].watch_duration
                  /\ response'.data_consumed = sessions[sid].data_consumed
            /\ (response.op = "end" /\ response.sid = sid /\ response.code = 200) =>
                  /\ UNCHANGED <<stream, sessions, users>>
                  /\ response'.watch_duration = response.watch_duration
                  /\ response'.data_consumed = response.data_consumed]_vars

\* a session ended twice by its viewer, one second watched and one unit consumed
C3_Witness ==
    \E sid \in 1..Len(sessions) :
        /\ response.op = "end" /\ response.sid = sid /\ response.code = 200
        /\ response.repeated
        /\ response.watch_duration = 1
        /\ response.data_consumed = 1
        /\ users[sessions[sid].user].total_watch_time = 1
        /\ users[sessions[sid].user].monthly_data_used = 1
        /\ stream.status = ONLINE

\* C4: when executions of end_session for one session overlap (two end
\* requests, or an end request and the stop webhook's loop), the viewer count
\* is lowered exactly once and the usage totals are raised exactly once for it.
C4_EndOnce ==
    \A sid \in 1..Len(sessions) :
        /\ hist.decrements[sid] <= 1
        /\ hist.charges[sid] <= 1
        /\ (Quiescent /\ sessions[sid].ended_at # Null) =>
              (hist.decrements[sid] = 1 /\ hist.charges[sid] = 1)

\* C5: a heartbeat for a session whose ended_at is set leaves last_heartbeat,
\* buffer_count, quality_switches, data_consumed and average_bitrate as they were.
C5_HeartbeatAfterEnd ==
    [][\A u \in Users, sid \in 1..MaxSessions, data \in HeartbeatInputs :
        (/\ response'.op = "heartbeat" /\ response'.sid = sid
         /\ visible(u, sid)
         /\ sessions[sid].ended_at # Null
         /\ Heartbeat(u, sid, data)) => sessions'[sid] = sessions[sid]]_vars

\* C6: once a session's stored ended_at is set it is never null again, in every
\* interleaving of heartbeats and ends.
C6_EndedIsTerminal ==
    [][\A sid \in 1..Len(sessions) :
        sessions[sid].ended_at # Null => sessions'[sid].ended_at # Null]_vars

\* C7: a playback request for a stream that is not ONLINE is answered 400 and
\* creates no session and changes no counter of the stream.
C7_OfflineRejected ==
    [][\A u \in Users, quality \in QualityLabels :
        (stream.status # ONLINE /\ response'.op = "play" /\ GetPlaybackUrl(u, quality)) =>
            /\ response'.code = 400
            /\ UNCHANGED <<stream, sessions, users>>]_vars

\* a request refused while the encoder is starting
C7_Witness ==
    /\ response.op = "play" /\ response.code = 400
    /\ stream.status = STARTING

\* C8: a playback request for a quality other than "auto" that the user's tier
\* does not permit is answered 403 with the tier's maximum quality and creates
\* no session and changes no counter.
C8_QualityForbidden ==
    [][\A u \in Users, quality \in QualityLabels :
        (/\ stream.status = ONLINE
         /\ quality # "auto"
         /\ ~ClaimedPermits(TierOf(u), quality)
         /\ response'.op = "play"
         /\ GetPlaybackUrl(u, quality)) =>
            /\ response'.code = 403
            /\ response'.max_quality = ClaimedMax(TierOf(u))
            /\ UNCHANGED <<stream, sessions, users>>]_vars

\* BASIC asking for 1080p is told 480p
C8_Witness ==
    /\ response.op = "play" /\ response.code = 403
    /\ response.quality = "1080p"
    /\ response.max_quality = "480p"
    /\ TierOf(1) = "BASIC"

C10_StartCounts ==
    [][\A u \in Users, quality \in QualityLabels :
        (response'.op = "play" /\ response'.code = 200 /\ GetPlaybackUrl(u, quality)) =>
            /\ Len(sessions') = Len(sessions) + 1
            /\ sessions'[Len(sessions')].ended_at = Null
            /\ stream'.current_viewers = stream.current_viewers + 1
            /\ stream'.total_views = stream.total_views + 1]_vars

\* the keys of the sessions whose stored ended_at is null
Active == {sid \in 1..Len(sessions) : sessions[sid].ended_at = Null}

\* the watch_duration of the rows with keys in sids that belong to user u, added up
RECURSIVE Watched(_, _, _)
Watched(rows, sids, u) ==
    IF sids = {} THEN 0
    ELSE LET sid == CHOOSE x \in sids : TRUE
         IN  (IF rows[sid].user = u THEN rows[sid].watch_duration ELSE 0)
                + Watched(rows, sids \ {sid}, u)

\* C11: a stop webhook that runs alone on a stream with k active sessions
\* leaves the stream OFFLINE with current_viewers 0, all k sessions ended, every
\* other session as it was, and each owner's total_watch_time raised by the sum
\* of the watch_duration of the sessions of theirs that it ended.
C11_StopEndsAll ==
    [][(response'.op = "stream_stop" /\ StreamStop) =>
        /\ stream'.status = OFFLINE
        /\ stream'.current_viewers = 0
        /\ Len(sessions') = Len(sessions)
        /\ response'.found = Cardinality(Active)
        /\ \A sid \in Active : sessions'[sid].ended_at = now
        /\ \A sid \in (1..Len(sessions)) \ Active : sessions'[sid] = sessions[sid]
        /\ \A u \in Users :
              users'[u].total_watch_time =
                  users[u].total_watch_time + Watched(sessions', Active, u)]_vars

\* a stop that ended two sessions of one viewer, one second watched in each
C11_Witness ==
    /\ response.op = "stream_stop"
    /\ response.found = 2
    /\ sessions[1].user = sessions[2].user
    /\ sessions[1].watch_duration = 1
    /\ sessions[2].watch_duration = 1
    /\ users[sessions[1].user].total_watch_time = 2

\* C12: the three writes of end_session are one unit: when no request is in
\* flight, also after one has failed past its first save, no stored session is
\* ended without its viewer decrement and its usage charge, and an end request
\* answered 200 leaves its session with both.
C12_EndAtomic ==
    \A sid \in 1..Len(sessions) :
        /\ (Quiescent /\ sessions[sid].ended_at # Null) =>
              (hist.decrements[sid] = 1 /\ hist.charges[sid] = 1)
        /\ (\E r \in Requests : /\ requests[r].pc = "done" /\ requests[r].op = "end"
                                 /\ requests[r].sid = sid /\ requests[r].code = 200) =>
              (hist.decrements[sid] = 1 /\ hist.charges[sid] = 1)

\* C13: a start webhook on a stream that is already ONLINE changes nothing but
\* started_at: status stays ONLINE, current_viewers, peak_viewers and every
\* session are as before.
C13_RedundantStart ==
    [][(stream.status = ONLINE /\ response'.op = "stream_start" /\ StreamStart) =>
        /\ stream' = [stream EXCEPT !.started_at = stream'.started_at]
        /\ sessions' = sessions]_vars

\* C14: a stop webhook is answered 200 and leaves the stream OFFLINE with
\* current_viewers 0, also on a stream that never went live and on one without
\* active sessions; on a stream that is already OFFLINE it changes ended_at only:
\* the other columns, every session and every user's totals stay as they were.
C14_StopIdempotent ==
    [][(response'.op = "stream_stop" /\ StreamStop) =>
        /\ response'.code = 200
        /\ stream'.status = OFFLINE
        /\ stream'.current_viewers = 0
        /\ Active = {} => (sessions' = sessions /\ users' = users)
        /\ stream.status = OFFLINE =>
              /\ stream' = [stream EXCEPT !.ended_at = now]
              /\ sessions' = sessions
              /\ users' = users]_vars

\* a second stop, later than the first, after a broadcast that was watched
C14_Witness ==
    /\ response.op = "stream_stop" /\ response.code = 200
    /\ response.repeated
    /\ response.found = 0
    /\ stream.status = OFFLINE
    /\ stream.started_at # Null
    /\ stream.ended_at = now
    /\ \E sid \in 1..Len(sessions) : /\ sessions[sid].ended_at # Null
                                      /\ sessions[sid].ended_at < now

\* C15: in every state, whatever the interleaving of playback requests, ends
\* and the start and stop webhooks on the stream, the stored counters satisfy
\* peak_viewers >= current_viewers >= 0.
C15_CountersOrdered ==
    /\ stream.current_viewers >= 0
    /\ stream.peak_viewers >= stream.current_viewers

\* a stop webhook overtaken by a playback request: a viewer counted on a
\* stream that is stored OFFLINE
C15_Witness ==
    /\ \E r1, r2 \in Requests :
          /\ requests[r1].pc = "done" /\ requests[r1].op = "play" /\ requests[r1].code = 200
          /\ requests[r2].pc = "done" /\ requests[r2].op = "stream_stop"
    /\ stream.status = OFFLINE
    /\ stream.current_viewers > 0
    /\ stream.peak_viewers > stream.current_viewers

\* C16: in every state, also after start and stop webhooks whose loads and
\* whole-row saves interleave, a stream stored ONLINE has started_at set.
C16_OnlineIsDated ==
    stream.status = ONLINE => stream.started_at # Null

\* a start webhook that loaded before a stop saved and saved after it: the
\* stream is ONLINE again and the stop's ended_at is overwritten
C16_Witness ==
    /\ \E r1, r2 \in Requests :
          /\ requests[r1].pc = "done" /\ requests[r1].op = "stream_start"
          /\ requests[r2].pc = "done" /\ requests[r2].op = "stream_stop"
    /\ stream.status = ONLINE
    /\ stream.ended_at = Null
    /\ stream.started_at # Null

\* C17: a heartbeat saved on a session whose stored ended_at is null, also when
\* heartbeats for the same session overlap, leaves every counter it did not
\* supply at its stored value and stores the value it supplied for the others.
C17_HeartbeatMerges ==
    [][\A r \in Requests :
        (/\ requests[r].pc = "heartbeat_save"
         /\ requests'[r].pc = "done"
         /\ sessions[requests[r].sid].ended_at = Null) =>
            \A f \in StatFields :
                sessions'[requests[r].sid][f] =
                    IF f \in DOMAIN requests[r].data THEN requests[r].data[f]
                    ELSE sessions[requests[r].sid][f]]_vars

\* C18: a user's stored total_watch_time never decreases, in every interleaving
\* of end_session executions for different sessions of that user (no session
\* charged twice).
C18_WatchTimeMonotonic ==
    [][(\A sid \in 1..Len(sessions) : hist'.charges[sid] <= 1) =>
          \A u \in Users : users'[u].total_watch_time >= users[u].total_watch_time]_vars

\* C19: a session row appears only through a playback request answered 200,
\* made while the stream was ONLINE for a quality the owner's tier permits; no
\* other request to the session endpoint stores ended_at or watch_duration
\* (only end and the stop webhook do) or data_consumed (only heartbeat does).
C19_OnlyStartCreates ==
    [][/\ Len(sessions') >= Len(sessions)
       /\ Len(sessions') > Len(sessions) =>
             /\ response'.op = "play" /\ response'.code = 200
             /\ stream.status = ONLINE
             /\ LET new == sessions'[Len(sessions')]
                IN  new.quality = "auto" \/ ClaimedPermits(TierOf(new.user), new.quality)
       /\ \A sid \in 1..Len(sessions) :
             /\ (sessions'[sid].ended_at # sessions[sid].ended_at
                    \/ sessions'[sid].watch_duration # sessions[sid].watch_duration)
                  => response'.op \in {"end", "stream_stop"}
             /\ sessions'[sid].data_consumed # sessions[sid].data_consumed
                  => response'.op = "heartbeat"]_vars

\* the members of a list
Range(seq) == {seq[i] : i \in 1..Len(seq)}

\* C20: every stored session has quality "auto" or one of its stream's
\* available_qualities.
C20_QualityAvailable ==
    \A sid \in 1..Len(sessions) :
        \/ sessions[sid].quality = "auto"
        \/ sessions[sid].quality \in Range(stream.available_qualities)

\* C21: a signed URL expires at now + expires_in seconds, its path is
\* key/master.m3u8 for "auto" and key/quality/playlist.m3u8 otherwise, and two
\* URLs whose (expires, path, secret) differ in a component never have the
\* same string digested for their signature.
C21_SignatureBinds ==
    [][response'.op = "sign" =>
        LET a == response.signed
            b == response'.signed
        IN  /\ b.expires = (now \div TicksPerSecond) + b.expires_in
            /\ b.path = IF b.quality = "auto" THEN b.stream_key \o "/master.m3u8"
                        ELSE b.stream_key \o "/" \o b.quality \o "/playlist.m3u8"
            /\ (response.op = "sign"
                  /\ <<a.expires, a.path, a.secret>> # <<b.expires, b.path, b.secret>>)
                 => a.message # b.message]_vars

\* C22: in every state a session with ended_at set has watch_duration equal to
\* the whole seconds from started_at to ended_at, and once ended_at is set
\* watch_duration is not written again.
C22_DurationSetOnce ==
    [][\A sid \in 1..Len(sessions') :
        /\ sessions'[sid].ended_at # Null =>
              sessions'[sid].watch_duration =
                  (sessions'[sid].ended_at - sessions'[sid].started_at) \div TicksPerSecond
        /\ (sid <= Len(sessions) /\ sessions[sid].ended_at # Null) =>
              sessions'[sid].watch_duration = sessions[sid].watch_duration]_vars

\* C23: with one request at a time, the current_viewers of a stream stored
\* ONLINE is the number of its sessions with ended_at null.
C23_ViewersAreActive ==
    stream.status = ONLINE => stream.current_viewers = Cardinality(Active)

\* C24: when a playback request and a stop webhook whose queries interleaved
\* have both completed and the stream is stored OFFLINE, no session is active
\* and current_viewers is 0.
C24_StopIsAuthoritative ==
    (/\ Quiescent
     /\ \E r1, r2 \in Requests :
           /\ requests[r1].op = "play" /\ requests[r1].pc = "done"
           /\ requests[r2].op = "stream_stop" /\ requests[r2].pc = "done"
     /\ stream.status = OFFLINE)
    => (Active = {} /\ stream.current_viewers = 0)

\* the operations of the session life cycle
SessionOps == {"play", "heartbeat", "end"}

\* C25: no step of a playback request, a heartbeat or an end changes the stored
\* status, started_at or ended_at of the stream, also when it saves counters
\* from a stream instance loaded before a webhook's save.
C25_LifecycleUntouched ==
    [][((\E r \in Requests : requests'[r] # requests[r] /\ requests'[r].op \in SessionOps)
          \/ (requests' = requests /\ response'.op \in SessionOps))
        => /\ stream'.status = stream.status
           /\ stream'.started_at = stream.started_at
           /\ stream'.ended_at = stream.ended_at]_vars

\* a playback request that counted its viewer after the stop webhook had saved
C25_Witness ==
    /\ \E r1, r2 \in Requests :
          /\ requests[r1].pc = "done" /\ requests[r1].op = "play" /\ requests[r1].code = 200
          /\ requests[r2].pc = "done" /\ requests[r2].op = "stream_stop"
    /\ stream.status = OFFLINE
    /\ stream.ended_at # Null
    /\ stream.current_viewers = 1
    /\ stream.peak_viewers = 1

\* C26: a heartbeat or an end by a user who is not staff, for an existing
\* session of another user, is answered 404 and changes no session, no column
\* of the stream and no user.
C26_SessionIsolation ==
    [][\A u \in Users, sid \in 1..Len(sessions) :
        (/\ response'.op \in {"heartbeat", "end"}
         /\ response'.sid = sid
         /\ ~users[u].is_staff
         /\ sessions[sid].user # u
         /\ \/ End(u, sid)
            \/ \E data \in HeartbeatInputs : Heartbeat(u, sid, data))
        => /\ response'.code = 404
           /\ UNCHANGED <<stream, sessions, users>>]_vars

\* an end refused for a session that exists and is still active
C26_Witness ==
    /\ response.op = "end" /\ response.code = 404
    /\ response.sid \in 1..Len(sessions)
    /\ sessions[response.sid].ended_at = Null
    /\ users[sessions[response.sid].user].is_staff

====
